---- MODULE Spec2Model ----
(***************************************************************************)
(* A model of the DQN training / evaluation engine of arlbench:            *)
(*   src/arlbench/algorithms/algorithm.py  (Algorithm: action_type, eval)  *)
(*   src/arlbench/algorithms/dqn_vw.py     (DQN: __init__, init, train,    *)
(*                                          update, _update_step)          *)
(*   src/arlbench/autorl/objectives.py     (the objective wrappers)        *)
(* Numbers are small integers: observations, actions, rewards, action      *)
(* values and parameters are integers, tau is a fraction over TauDen and   *)
(* epsilon a fraction over DrawScale.  RNG keys are paths in the split     *)
(* tree (sequences of 0/1).                                                *)
(***************************************************************************)
EXTENDS Integers, Sequences, FiniteSets, TLC

VARIABLES
    pc,            \* position of the caller / of _update_step / of eval
    action_space,  \* env.action_space
    cfg,           \* hpo_config and env_options
    network,       \* self.network (None before construction)
    buffer,        \* self.buffer  (None before construction)
    rng,           \* runner_state.rng, the local rng of _update_step
    rng2,          \* the local _rng of _update_step
    train_state,   \* runner_state.train_state, the local train_state
    env_state,     \* runner_state.env_state, the scan carry env_state
    last_obs,      \* runner_state.obs, the local last_obs of _update_step
    obsv,          \* the scan carry obsv of take_step
    global_step,   \* runner_state.global_step, the scan carry global_step
    buffer_state,  \* the BufferState
    k,             \* index of the inner scan over take_step
    it,            \* index of the outer scan over _update_step
    n_updates,     \* length of the outer scan of this train call
    initial_step,  \* global_step of the runner_state handed to train
    draw,          \* jax.random.uniform(rng) of this iteration
    rand_act,      \* env.sample_action(rng) of this iteration
    step_out,      \* what the last take_step computed
    loss,          \* loss reported by the update gate, times the batch size
    batch_idx,     \* the indices drawn by buffer.sample in this iteration
    prev_ts,       \* the TrainState the iteration started from
    key_uses,      \* the keys the random operations of this iteration consumed
    ev,            \* the state of an eval call
    obj,           \* the state of a call of a wrapped train function
    init_args      \* network_params and target_params of the last init call

trainVars == <<rng, rng2, train_state, env_state, last_obs, obsv, global_step,
               buffer_state, k, it, n_updates, initial_step, draw, rand_act,
               step_out, loss, batch_idx, prev_ts, key_uses>>
ctorVars == <<action_space, cfg, network, buffer>>
vars == <<pc, ctorVars, trainVars, ev, obj, init_args>>

\* ------------------------------------------------------------------ bounds
MaxEnvs == 2
MaxIters == 2
MaxInitStep == 1
MaxLearningStarts == 3
MaxTargetFreq == 3
MaxEpisodes == 5
MaxEvalSteps == 4
MaxTrainTime == 2

\* what a field holds before it is assigned
None == [none |-> TRUE]

\* ------------------------------------------------------- small arithmetic
Min(a, b) == IF a < b THEN a ELSE b
Abs(x) == IF x < 0 THEN -x ELSE x
Sign(x) == IF x < 0 THEN -1 ELSE IF x > 0 THEN 1 ELSE 0

RECURSIVE Pow(_, _)
Pow(b, e) == IF e = 0 THEN 1 ELSE b * Pow(b, e - 1)

RECURSIVE SumTo(_, _)
SumTo(f, n) == IF n = 0 THEN 0 ELSE f[n] + SumTo(f, n - 1)

\* ---------------------------------------------------------------- RNG keys
\* jax.random.split(key) gives the two children of key in the split tree
RootKey == <<>>
SplitFst(key) == Append(key, 0)
SplitSnd(key) == Append(key, 1)

\* a deterministic function of a key, for what the stubs derive from it
RECURSIVE KeySum(_)
KeySum(key) == IF key = <<>> THEN 0
               ELSE Len(key) * (Head(key) + 1) + KeySum(Tail(key))

\* ------------------------------------------------------------ environment
\* The environment is an external collaborator.  The stub has, per
\* environment, a position in an episode of EpisodeLen steps; it reports done
\* on the last step of the episode and then starts over.
Obs == 0..1
Actions == 0..1
EpisodeLen == 3
Envs(n) == 1..n

EnvObs(t) == t % 2


\* env.reset(key): the environments start at staggered positions
EnvReset(key, n) == [i \in Envs(n) |-> (KeySum(key) + i) % EpisodeLen]

\* the noise env.step derives from its key
KeyNoise(key) == KeySum(key) % 2

EnvStep(es, action, noise) ==
    [env_state |-> [i \in DOMAIN es |-> (es[i] + 1) % EpisodeLen],
     obs       |-> [i \in DOMAIN es |-> EnvObs((es[i] + 1) % EpisodeLen)],
     reward    |-> [i \in DOMAIN es |->
                       IF (es[i] + action[i] + noise) % 2 = 0 THEN 1 ELSE 0],
     done      |-> [i \in DOMAIN es |-> es[i] = EpisodeLen - 1]]


\* ---------------------------------------------------------------- network
\* Q(params, observation) -> action-values, a pure function.
Params == 0..2
QVal(p, o, a) == ((p + 1) * (a + 1) + 2 * o * (2 - a)) % 3
NetApply(p, obs) == [i \in DOMAIN obs |-> [a \in Actions |-> QVal(p, obs[i], a)]]
RowMax(q) == CHOOSE m \in {q[a] : a \in Actions} : \A a \in Actions : q[a] <= m
RowArgmax(q) == CHOOSE a \in Actions :
                    /\ q[a] = RowMax(q)
                    /\ \A b \in Actions : q[b] = RowMax(q) => a <= b
\* q.take(idx): index into the flattened (n_envs, n_actions) array
TakeFlat(q, idx) ==
    [i \in DOMAIN idx |-> q[(idx[i] \div Cardinality(Actions)) + 1]
                           [idx[i] % Cardinality(Actions)]]

\* ----------------------------------------------------------- replay buffer
\* The prioritised flat buffer (flashbax) behind self.buffer, by its contract:
\* a circular store of capacity slots with a priority per slot.
Slots(cap) == 0..(cap - 1)

BufferInit(cap, timestep) ==
    [storage       |-> [s \in Slots(cap) |-> timestep],
     current_index |-> 0,
     priorities    |-> [s \in Slots(cap) |-> 0],
     valid_len     |-> 0]

\* the slots add writes for a batch of n timesteps
WrittenSlots(bs, n) ==
    [j \in 1..n |-> (bs.current_index + j - 1) % Cardinality(DOMAIN bs.storage)]

BufferAdd(bs, batch) ==
    LET cap == Cardinality(DOMAIN bs.storage)
        n   == Len(batch)
        w   == WrittenSlots(bs, n)
    IN  [bs EXCEPT
          !.storage = [s \in Slots(cap) |->
                         IF \E j \in 1..n : w[j] = s
                         THEN batch[CHOOSE j \in 1..n :
                                      /\ w[j] = s
                                      /\ \A j2 \in 1..n : w[j2] = s => j2 <= j]
                         ELSE bs.storage[s]],
          !.current_index = (bs.current_index + n) % cap,
          !.valid_len = Min(bs.valid_len + n, cap)]

\* indices outside the array are dropped, as a scatter does
BufferSetPriorities(bs, indices, weights) ==
    [bs EXCEPT
      !.priorities = [s \in DOMAIN bs.priorities |->
                        IF \E j \in DOMAIN indices : indices[j] = s
                        THEN weights[CHOOSE j \in DOMAIN indices :
                                       /\ indices[j] = s
                                       /\ \A j2 \in DOMAIN indices :
                                            indices[j2] = s => j2 <= j]
                        ELSE bs.priorities[s]]]

\* the slots a priority-weighted draw can return: those of positive priority
\* (any slot when every priority is zero, where the draw is undefined)
PrioritisedSlots(bs) ==
    LET pos == {s \in DOMAIN bs.priorities : bs.priorities[s] > 0}
    IN  IF pos = {} THEN DOMAIN bs.priorities ELSE pos

\* the slots a uniform draw can return: the valid ones (any slot when none is
\* valid, where the draw is undefined)
UniformSlots(bs) ==
    IF bs.valid_len = 0 THEN DOMAIN bs.storage ELSE 0..(bs.valid_len - 1)

PrioritisedSample(bs, batch_size) == [1..batch_size -> PrioritisedSlots(bs)]
UniformSample(bs, batch_size) == [1..batch_size -> UniformSlots(bs)]

\* self.buffer.sample, as the constructor left it
BufferSample(buf, bs) ==
    IF buf.sample = "uniform_sample"
    THEN UniformSample(bs, buf.sample_batch_size)
    ELSE PrioritisedSample(bs, buf.sample_batch_size)

\* ----------------------------------------------------------- configuration
\* the values of a uniform draw in [0, 1), as multiples of 1/DrawScale;
\* epsilon is a multiple of 1/DrawScale too, DrawScale standing for 1
Draws == 0..1
DrawScale == Cardinality(Draws)
\* the values of tau in [0, 1], as multiples of 1/TauDen
Taus == 0..2
TauDen == Cardinality(Taus) - 1
TrainFreqs == 1..2

DiscreteSpace == [kind |-> "Discrete", n |-> 2, shape |-> <<>>]
BoxSpace      == [kind |-> "Box", n |-> 0, shape |-> <<2>>]
OtherSpace    == [kind |-> "MultiDiscrete", n |-> 0, shape |-> <<>>]

BaseCfg ==
    [n_envs                     |-> 1,
     n_total_timesteps          |-> MaxIters,
     buffer_size                |-> 4,
     buffer_batch_size          |-> 1,
     buffer_prio_sampling       |-> FALSE,
     buffer_alpha               |-> 1,
     buffer_epsilon             |-> 1,
     gamma                      |-> 1,
     tau                        |-> TauDen,
     epsilon                    |-> 1,
     use_target_network         |-> TRUE,
     train_frequency            |-> 1,
     learning_starts            |-> 1,
     target_network_update_freq |-> 2]

\* the schedule varies, the numerics are the base ones
SchedConfigs ==
    {[BaseCfg EXCEPT !.n_envs = n, !.train_frequency = tf,
                     !.learning_starts = ls,
                     !.target_network_update_freq = f,
                     !.buffer_size = 2 * n,
                     !.n_total_timesteps = tf * n * MaxIters] :
        n \in 1..MaxEnvs, tf \in TrainFreqs, ls \in 0..MaxLearningStarts,
        f \in 1..MaxTargetFreq}

\* n_total_timesteps is no multiple of train_frequency * n_envs: one more
\* than a multiple, or one less than train_frequency * n_envs
TotalConfigs ==
    {[BaseCfg EXCEPT !.n_envs = n, !.train_frequency = tf,
                     !.buffer_size = 4 * n,
                     !.n_total_timesteps = tf * n * q + 1] :
        n \in 1..MaxEnvs, tf \in TrainFreqs, q \in {0, MaxIters}}
    \cup {[BaseCfg EXCEPT !.n_envs = n, !.train_frequency = tf,
                          !.buffer_size = 4 * n,
                          !.n_total_timesteps = tf * n - 1] :
            n \in 1..MaxEnvs, tf \in TrainFreqs}

\* one rollout of four steps in one environment
ScenarioCfg ==
    [BaseCfg EXCEPT !.train_frequency = 4, !.learning_starts = 4,
                    !.n_total_timesteps = 4]

\* the numerics vary one at a time, on a fixed schedule
NumBase ==
    [BaseCfg EXCEPT !.n_envs = 2, !.train_frequency = 2,
                    !.n_total_timesteps = 4 * MaxIters]
NumConfigs ==
    {NumBase}
    \cup {[NumBase EXCEPT !.buffer_batch_size = 2, !.buffer_prio_sampling = ps] :
            ps \in BOOLEAN}
    \cup {[NumBase EXCEPT !.buffer_prio_sampling = TRUE, !.buffer_epsilon = be] :
            be \in 0..1}
    \cup {[NumBase EXCEPT !.buffer_alpha = al, !.buffer_epsilon = be] :
            al \in 0..1, be \in 0..1}
    \cup {[NumBase EXCEPT !.gamma = g, !.use_target_network = ut] :
            g \in 0..1, ut \in BOOLEAN}
    \cup {[NumBase EXCEPT !.tau = t, !.learning_starts = 0] : t \in Taus}
    \cup {[NumBase EXCEPT !.epsilon = e] : e \in {0, DrawScale}}

\* a batch larger than what the first rollout collects, and no warm-up
WarmupCfg ==
    [BaseCfg EXCEPT !.buffer_batch_size = 2, !.learning_starts = 0]

\* a capacity that is no multiple of n_envs, so that an add wraps
WrapCfg ==
    [BaseCfg EXCEPT !.n_envs = 2, !.buffer_size = 3,
                    !.n_total_timesteps = 2 * MaxIters]

\* Invariant: batch size <= buffer capacity; all frequencies >= 1
ConfigInvariant(c) ==
    /\ c.buffer_batch_size <= c.buffer_size
    /\ c.train_frequency >= 1
    /\ c.target_network_update_freq >= 1

Configs == SchedConfigs \cup TotalConfigs \cup {ScenarioCfg} \cup NumConfigs
           \cup {WarmupCfg, WrapCfg}

\* ------------------------------------------------------------ construction
\* a classification that lets every other space through as a Box
action_type_NoRaise(space) ==
    IF space.kind = "Discrete"
    THEN [raised |-> FALSE, action_size |-> space.n, discrete |-> TRUE]
    ELSE [raised |-> FALSE, action_size |-> Len(space.shape), discrete |-> FALSE]
\* Algorithm.action_type
action_type(space) ==
    IF space.kind = "Discrete"
    THEN [raised |-> FALSE, action_size |-> space.n, discrete |-> TRUE]
    ELSE IF space.kind = "Box"
    THEN [raised |-> FALSE, action_size |-> space.shape[1], discrete |-> FALSE]
    ELSE [raised |-> TRUE, action_size |-> 0, discrete |-> FALSE]

\* which sample function the constructor installs
SampleFn(hpo) ==
    IF hpo.buffer_prio_sampling = TRUE THEN "uniform_sample"
    ELSE "prioritised_sample"

\* DQN.__init__
Construct ==
    /\ pc = "new"
    /\ LET at == action_type(action_space)
       IN  IF at.raised
           THEN /\ pc' = "failed"
                /\ UNCHANGED <<network, buffer>>
           ELSE /\ network' = [action_size |-> at.action_size,
                               discrete    |-> at.discrete]
                /\ buffer' = [max_length        |-> cfg.buffer_size,
                              min_length        |-> cfg.buffer_batch_size,
                              sample_batch_size |-> cfg.buffer_batch_size,
                              add_batch_size    |-> cfg.n_envs,
                              sample            |-> SampleFn(cfg)]
                /\ pc' = "constructed"
    /\ UNCHANGED <<action_space, cfg, trainVars, ev, obj, init_args>>

\* ---------------------------------------------------------------- DQN.init
\* parameters that were not given (None)
NoParams == 0 - 1
NoTrainState == [params |-> NoParams, target_params |-> NoParams,
                 opt_state |-> NoParams, step |-> 0]
NoStepOut == [action |-> <<>>, reward |-> <<>>, done |-> <<>>,
              td_error |-> <<>>, weight |-> <<>>, added_indices |-> <<>>,
              written |-> <<>>, timestep |-> <<>>, explored |-> FALSE,
              prev_obs |-> <<>>, obs |-> <<>>]

\* network.init(key, sample observation)
NetInit(key) == KeySum(key) % 3

\* DQNTrainState.create_with_opt_state
create_with_opt_state(params, target_params, opt_state) ==
    [params        |-> params,
     target_params |-> target_params,
     opt_state     |-> IF opt_state = NoParams THEN 0 ELSE opt_state,
     step          |-> 0]

\* the network_params and target_params a caller hands to init
InitParams == {<<NoParams, NoParams>>, <<1, 0>>, <<1, NoParams>>,
               <<NoParams, 0>>}
NoInitArgs == [network_params |-> NoParams, target_params |-> NoParams]

\* an init that initializes the parameters whether or not they were given
InitNetworkParams_AlwaysInit(given, key) == NetInit(key)
\* if params is None: params = self.network.init(_rng, _obs)
InitNetworkParams(given, key) ==
    IF given = NoParams THEN NetInit(key) ELSE given

InitAlg ==
    /\ pc = "constructed"
    /\ \E given \in InitParams :
         LET key     == SplitFst(rng)
             es      == EnvReset(key, cfg.n_envs)
             np      == given[1]
             tp      == given[2]
             _action == [i \in Envs(cfg.n_envs) |-> 0]
             dummy   == EnvStep(es, _action, 0)
             _ts     == [last_obs |-> dummy.obs[1], obs |-> dummy.obs[1],
                         action |-> _action[1], reward |-> dummy.reward[1],
                         done |-> dummy.done[1]]
             _key    == SplitSnd(key)
         IN  /\ env_state' = es
             /\ last_obs' = [i \in Envs(cfg.n_envs) |-> EnvObs(es[i])]
             /\ buffer_state' = BufferInit(cfg.buffer_size, _ts)
             /\ train_state' = create_with_opt_state(
                                  InitNetworkParams(np, _key),
                                  InitNetworkParams(tp, _key),
                                  NoParams)
             /\ rng' = SplitFst(key)
             /\ global_step' = 0
             /\ init_args' = [network_params |-> np, target_params |-> tp]
    /\ pc' = "initialized"
    /\ UNCHANGED <<ctorVars, rng2, obsv, k, it, n_updates, initial_step, draw,
                   rand_act, step_out, loss, batch_idx, prev_ts, key_uses, ev,
                   obj>>

\* --------------------------------------------------------------- DQN.train
\* a scan length that forgets the number of environments
NumUpdates_PerEnv(c) == c.n_total_timesteps \div c.train_frequency
\* the length of the scan over _update_step
NumUpdates(c) == (c.n_total_timesteps \div c.train_frequency) \div c.n_envs

\* train is called with the runner state of init, or with one whose
\* global_step the caller restored; the arguments of init are gone
TrainCall ==
    /\ pc = "initialized"
    /\ \E g0 \in 0..MaxInitStep :
         /\ global_step' = g0
         /\ initial_step' = g0
    /\ n_updates' = NumUpdates(cfg)
    /\ it' = 0
    /\ pc' = IF NumUpdates(cfg) = 0 THEN "trained" ELSE "step"
    /\ init_args' = NoInitArgs
    /\ UNCHANGED <<ctorVars, rng, rng2, train_state, env_state, last_obs, obsv,
                   buffer_state, k, draw, rand_act, step_out, loss, batch_idx,
                   prev_ts, key_uses, ev, obj>>

\* -------------------------------------------------------- DQN._update_step
\* an exploration test that also explores on a draw equal to epsilon
Explore_Inclusive(u, epsilon) == u <= epsilon
\* jax.random.uniform(rng) < epsilon
Explore(u, epsilon) == u < epsilon

\* the head of _update_step: unpack the runner state, split the key.  The
\* uniform draw and the sampled action are functions of a key that stays the
\* same for the whole rollout; the action is sampled only when exploring.
UpdateStepBegin ==
    /\ pc = "step"
    /\ rng' = SplitFst(rng)
    /\ rng2' = SplitSnd(rng)
    /\ \E u \in Draws, a \in Actions :
         /\ Explore(u, cfg.epsilon) \/ a = 0
         /\ draw' = u
         /\ rand_act' = a
    /\ obsv' = last_obs
    /\ prev_ts' = train_state
    /\ key_uses' = <<>>
    /\ k' = 0
    /\ pc' = "rollout"
    /\ UNCHANGED <<ctorVars, train_state, env_state, last_obs, global_step,
                   buffer_state, it, n_updates, initial_step, step_out, loss,
                   batch_idx, ev, obj, init_args>>

random_action(n) == [i \in Envs(n) |-> rand_act]

greedy_action(ts, obs) ==
    LET q_values == NetApply(ts.params, obs)
    IN  [i \in DOMAIN obs |-> RowArgmax(q_values[i])]

\* the bootstrap term of take_step
QNextTarget(ts, obs, use_target) ==
    LET q == NetApply(IF use_target THEN ts.target_params ELSE ts.params, obs)
    IN  [i \in DOMAIN obs |-> RowArgmax(q[i])]

BoolInt(b) == IF b THEN 1 ELSE 0

TdError(ts, prev_obs, action, out, c) ==
    LET q_next_target == QNextTarget(ts, out.obs, c.use_target_network)
        q_taken       == TakeFlat(NetApply(ts.params, prev_obs), action)
    IN  [i \in DOMAIN action |->
            out.reward[i]
            + (1 - BoolInt(out.done[i])) * c.gamma * q_next_target[i]
            - q_taken[i]]

TransitionWeight(td_error, c) ==
    [i \in DOMAIN td_error |->
        Pow(Abs(td_error[i]) + c.buffer_epsilon, c.buffer_alpha)]

\* jnp.arange(0, len(obsv)) + buffer_state.current_index
AddedIndices(bs, n) == [j \in 1..n |-> (j - 1) + bs.current_index]

\* the keys one take_step hands to random operations: the uniform draw and,
\* when exploring, env.sample_action once per environment read the closure
\* rng; env.step reads the closure _rng
RolloutKeyUses(explore, n) ==
    <<[op |-> "uniform", key |-> rng]>>
    \o (IF explore
        THEN [i \in Envs(n) |-> [op |-> "sample_action", key |-> rng]]
        ELSE <<>>)
    \o <<[op |-> "env.step", key |-> rng2]>>

\* a batch that holds the first environment's timestep only
TimeStepBatch_FirstEnvOnly(prev, action, out) ==
    <<[last_obs |-> prev[1], obs |-> out.obs[1], action |-> action[1],
       reward |-> out.reward[1], done |-> out.done[1]]>>
\* TimeStep(last_obs=last_obs, obs=obsv, action=action, reward=reward, done=done)
TimeStepBatch(prev, action, out) ==
    [i \in DOMAIN action |->
        [last_obs |-> prev[i], obs |-> out.obs[i], action |-> action[i],
         reward |-> out.reward[i], done |-> out.done[i]]]

\* a step counter that counts scheduler steps instead of environment steps
AdvanceGlobalStep_PerStep(gs, n_envs) == gs + 1
AdvanceGlobalStep(gs, n_envs) == gs + n_envs

TakeStep ==
    /\ pc = "rollout"
    /\ k < cfg.train_frequency
    /\ LET n        == cfg.n_envs
           explore  == Explore(draw, cfg.epsilon)
           action   == IF explore THEN random_action(n)
                       ELSE greedy_action(train_state, last_obs)
           out      == EnvStep(env_state, action, KeyNoise(rng2))
           td_error == TdError(train_state, last_obs, action, out, cfg)
           timestep == TimeStepBatch(last_obs, action, out)
           added    == BufferAdd(buffer_state, timestep)
           weight   == TransitionWeight(td_error, cfg)
           indices  == AddedIndices(added, n)
       IN  /\ env_state' = out.env_state
           /\ obsv' = out.obs
           /\ buffer_state' = BufferSetPriorities(added, indices, weight)
           /\ global_step' = AdvanceGlobalStep(global_step, n)
           /\ step_out' = [action |-> action, reward |-> out.reward,
                           done |-> out.done, td_error |-> td_error,
                           weight |-> weight, added_indices |-> indices,
                           written |-> WrittenSlots(buffer_state, n),
                           timestep |-> timestep, explored |-> explore,
                           prev_obs |-> obsv, obs |-> out.obs]
           /\ key_uses' = key_uses \o RolloutKeyUses(explore, n)
    /\ k' = k + 1
    /\ UNCHANGED <<pc, ctorVars, rng, rng2, train_state, last_obs, it,
                   n_updates, initial_step, draw, rand_act, loss, batch_idx,
                   prev_ts, ev, obj, init_args>>

\* ---------------------------------------------------------------- DQN.update
\* the gradient of the loss, summed over the batch, and one optimizer step
Update(ts, batch, c) ==
    LET B      == DOMAIN batch
        tparam == IF c.use_target_network THEN ts.target_params ELSE ts.params
        next_q == [b \in B |->
                     batch[b].reward
                     + (1 - BoolInt(batch[b].done)) * c.gamma
                       * RowMax([a \in Actions |-> QVal(tparam, batch[b].obs, a)])]
        q_pred == [b \in B |-> QVal(ts.params, batch[b].last_obs, batch[b].action)]
        err    == [b \in B |-> q_pred[b] - next_q[b]]
        sq     == [b \in B |-> err[b] * err[b]]
        grads  == SumTo(err, Len(batch))
    IN  [train_state |-> [ts EXCEPT !.params = (ts.params - Sign(grads)) % 3,
                                    !.opt_state = ts.opt_state + 1,
                                    !.step = ts.step + 1],
         loss        |-> SumTo(sq, Len(batch))]

\* a gate that already opens at global_step = learning_starts
UpdateGate_Inclusive(gs, c) ==
    (gs >= c.learning_starts) /\ (gs % c.train_frequency = 0)
\* a gate evaluated on the global_step the rollout started from
UpdateGate_AtRolloutStart(gs, c) ==
    LET g0 == gs - c.train_frequency * c.n_envs
    IN  (g0 > c.learning_starts) /\ (g0 % c.train_frequency = 0)
UpdateGate(gs, c) ==
    (gs > c.learning_starts) /\ (gs % c.train_frequency = 0)

\* a sync gate that ignores the warm-up threshold
TargetGate_NoWarmup(gs, c) == gs % c.target_network_update_freq = 0
TargetGate(gs, c) ==
    (gs > c.learning_starts) /\ (gs % c.target_network_update_freq = 0)

\* optax.incremental_update(new, old, tau)
IncrementalUpdate(new, old, tau) == (tau * new + (TauDen - tau) * old) \div TauDen

\* a sync that copies the online parameters of before the gradient update
target_update_Stale(ts, c) ==
    [ts EXCEPT !.target_params =
                  IncrementalUpdate(prev_ts.params, ts.target_params, c.tau)]
target_update(ts, c) ==
    [ts EXCEPT !.target_params =
                  IncrementalUpdate(ts.params, ts.target_params, c.tau)]

dont_target_update(ts) == ts

\* the update gate, after the rollout
DoUpdateGate ==
    /\ pc = "rollout"
    /\ k = cfg.train_frequency
    /\ last_obs' = obsv
    /\ IF UpdateGate(global_step, cfg)
       THEN \E idx \in BufferSample(buffer, buffer_state) :
              LET batch == [b \in DOMAIN idx |-> buffer_state.storage[idx[b]]]
                  upd   == Update(train_state, batch, cfg)
              IN  /\ train_state' = upd.train_state
                  /\ loss' = upd.loss
                  /\ batch_idx' = idx
                  /\ key_uses' = Append(key_uses,
                                        [op |-> "buffer.sample", key |-> rng])
       ELSE /\ train_state' = train_state
            /\ loss' = 0
            /\ batch_idx' = <<>>
            /\ key_uses' = key_uses
    /\ pc' = "target_gate"
    /\ UNCHANGED <<ctorVars, rng, rng2, env_state, obsv, global_step,
                   buffer_state, k, it, n_updates, initial_step, draw, rand_act,
                   step_out, prev_ts, ev, obj, init_args>>

\* the target-sync gate, and the runner state handed to the next iteration
DoTargetGate ==
    /\ pc = "target_gate"
    /\ train_state' =
         IF TargetGate(global_step, cfg)
         THEN target_update(train_state, cfg)
         ELSE dont_target_update(train_state)
    /\ it' = it + 1
    /\ pc' = IF it + 1 < n_updates THEN "step" ELSE "trained"
    /\ UNCHANGED <<ctorVars, rng, rng2, env_state, last_obs, obsv, global_step,
                   buffer_state, k, n_updates, initial_step, draw, rand_act,
                   step_out, loss, batch_idx, prev_ts, key_uses, ev, obj,
                   init_args>>

\* ---------------------------------------------------------- Algorithm.eval
NoEval == [phase |-> "idle", num |-> 0, n_evals |-> 0, batch |-> 0,
           env_state |-> <<>>, obs |-> <<>>, reward |-> <<>>, done |-> <<>>,
           rng |-> <<>>, reset_rng |-> <<>>, step_rng |-> <<>>,
           reward_ |-> <<>>, done_ |-> <<>>, at_done |-> <<>>, steps |-> 0,
           rewards |-> <<>>, result |-> <<>>, batch_keys |-> <<>>,
           endless |-> {}]

CeilDiv(a, b) == (a + b - 1) \div b

\* a batch count that rounds down
NEvals_Floor(num, n_envs) == IF num > n_envs THEN num \div n_envs ELSE 1
\* the number of evaluation batches
NEvals(num, n_envs) == IF num > n_envs THEN CeilDiv(num, n_envs) ELSE 1

\* eval is called on an initialized runner state; endless are the
\* environments that never report done
EvalCall ==
    /\ pc = "initialized"
    /\ \E num \in 1..MaxEpisodes, endless \in SUBSET Envs(cfg.n_envs) :
         ev' = [NoEval EXCEPT !.phase = "scan", !.num = num,
                              !.n_evals = NEvals(num, cfg.n_envs),
                              !.endless = endless]
    /\ pc' = "eval"
    /\ init_args' = NoInitArgs
    /\ UNCHANGED <<ctorVars, trainVars, obj>>

\* the head of _env_episode: derive the keys, reset the environments
EnvEpisodeBegin ==
    /\ pc = "eval"
    /\ ev.phase = "scan"
    /\ ev.batch < ev.n_evals
    /\ LET _rng      == SplitSnd(rng)
           reset_rng == SplitSnd(_rng)
           es        == EnvReset(reset_rng, cfg.n_envs)
       IN  ev' = [ev EXCEPT
                    !.phase = "while",
                    !.env_state = es,
                    !.obs = [i \in Envs(cfg.n_envs) |-> EnvObs(es[i])],
                    !.reward = [i \in Envs(cfg.n_envs) |-> 0],
                    !.done = [i \in Envs(cfg.n_envs) |-> FALSE],
                    !.at_done = [i \in Envs(cfg.n_envs) |-> 0],
                    !.reward_ = [i \in Envs(cfg.n_envs) |-> 0],
                    !.done_ = [i \in Envs(cfg.n_envs) |-> FALSE],
                    !.steps = 0,
                    !.rng = SplitFst(_rng),
                    !.reset_rng = reset_rng,
                    !.batch_keys = Append(ev.batch_keys,
                                          [reset |-> reset_rng,
                                           loop  |-> SplitFst(_rng)])]
    /\ UNCHANGED <<pc, ctorVars, trainVars, obj, init_args>>

\* a loop condition that stops as soon as one environment is done
CondFn_AnyDone(done) == \A i \in DOMAIN done : ~done[i]
\* cond_fn
CondFn(done) == ~(\A i \in DOMAIN done : done[i])

\* env.step in an evaluation: an endless environment never reports done
EvalEnvStep(es, action, noise, endless) ==
    LET out == EnvStep(es, action, noise)
    IN  [out EXCEPT !.done = [i \in DOMAIN es |->
                                out.done[i] /\ i \notin endless]]

\* self.predict: the greedy action of the online parameters
Predict(ts, obs) == [i \in DOMAIN obs |-> RowArgmax(NetApply(ts.params, obs)[i])]

\* an accumulation that forgets the done-mask
AccumReward_NoMask(reward, reward_, done) ==
    [i \in DOMAIN reward |-> reward[i] + reward_[i]]
\* reward += reward_ * ~done
AccumReward(reward, reward_, done) ==
    [i \in DOMAIN reward |-> reward[i] + reward_[i] * BoolInt(~done[i])]

\* done = jnp.logical_or(done, done_)
AccumDone(done, done_) == [i \in DOMAIN done |-> done[i] \/ done_[i]]

\* body_fn, one turn of the while loop.  The loop has no step limit; the
\* model follows it for MaxEvalSteps turns.
BodyFn ==
    /\ pc = "eval"
    /\ ev.phase = "while"
    /\ CondFn(ev.done)
    /\ ev.steps < MaxEvalSteps
    /\ LET rng1     == SplitFst(ev.rng)
           step_rng == SplitSnd(rng1)
           action   == Predict(train_state, ev.obs)
           out      == EvalEnvStep(ev.env_state, action, KeyNoise(step_rng),
                                   ev.endless)
           reward   == AccumReward(ev.reward, out.reward, ev.done)
       IN  ev' = [ev EXCEPT
                    !.env_state = out.env_state,
                    !.obs = out.obs,
                    !.reward = reward,
                    !.done = AccumDone(ev.done, out.done),
                    !.at_done = [i \in DOMAIN ev.done |->
                                   IF ~ev.done[i] /\ out.done[i]
                                   THEN ev.reward[i] + out.reward[i]
                                   ELSE ev.at_done[i]],
                    !.reward_ = out.reward,
                    !.done_ = out.done,
                    !.steps = ev.steps + 1,
                    !.rng = SplitFst(rng1),
                    !.step_rng = step_rng]
    /\ UNCHANGED <<pc, ctorVars, trainVars, obj, init_args>>

\* the while loop ends: _env_episode returns its runner state and the rewards
EnvEpisodeEnd ==
    /\ pc = "eval"
    /\ ev.phase = "while"
    /\ ~CondFn(ev.done)
    /\ ev' = [ev EXCEPT !.phase = "scan",
                        !.batch = ev.batch + 1,
                        !.rewards = Append(ev.rewards, ev.reward)]
    /\ UNCHANGED <<pc, ctorVars, trainVars, obj, init_args>>

RECURSIVE Concat(_)
Concat(rows) == IF rows = <<>> THEN <<>> ELSE Head(rows) \o Concat(Tail(rows))

\* jnp.concat(rewards)[:num_eval_episodes]
EvalResult(rewards, num) ==
    LET flat == Concat(rewards)
    IN  SubSeq(flat, 1, Min(num, Len(flat)))

EvalReturn ==
    /\ pc = "eval"
    /\ ev.phase = "scan"
    /\ ev.batch = ev.n_evals
    /\ ev' = [ev EXCEPT !.phase = "returned",
                        !.result = EvalResult(ev.rewards, ev.num)]
    /\ pc' = "evaluated"
    /\ UNCHANGED <<ctorVars, trainVars, obj, init_args>>

\* ------------------------------------------------------ objective wrappers
\* src/arlbench/autorl/objectives.py: Objective(train_func, objectives,
\* optimize_objectives) returns a wrapper around train_func.
Objectives == {"Runtime", "RewardMean", "RewardStd", "Emissions"}
Keys == {"runtime", "reward_mean", "reward_std", "emissions"}

\* a RewardStd that records under the key of RewardMean
KEY_StdAsMean(o) ==
    CASE o = "Runtime"    -> "runtime"
      [] o = "RewardMean" -> "reward_mean"
      [] o = "RewardStd"  -> "reward_mean"
      [] o = "Emissions"  -> "emissions"
\* the key a wrapper writes
KEY(o) ==
    CASE o = "Runtime"    -> "runtime"
      [] o = "RewardMean" -> "reward_mean"
      [] o = "RewardStd"  -> "reward_std"
      [] o = "Emissions"  -> "emissions"

\* get_spec()["optimize"]
get_spec_optimize(o) == IF o = "RewardMean" THEN "upper" ELSE "lower"

\* value *= -1 when optimize_objectives differs from the objective's own
Signed(o, optimize_objectives, value) ==
    IF optimize_objectives # get_spec_optimize(o) THEN 0 - value ELSE value

\* objectives[key] = value
SetItem(objectives, key, value) ==
    [x \in DOMAIN objectives \cup {key} |->
        IF x = key THEN value ELSE objectives[x]]

RECURSIVE SeqSum(_)
SeqSum(q) == IF q = <<>> THEN 0 ELSE Head(q) + SeqSum(Tail(q))
\* np.mean, on vectors whose sum is a multiple of their length
Mean(q) == SeqSum(q) \div Len(q)

\* what a train function returns: (runner state, train result); the rewards
\* are such that their means are whole numbers
TrainResults ==
    {[runner_state |-> r, train_result |-> [eval_rewards |-> e]] :
        r \in 0..1, e \in {<<<<0, 2>>>>, <<<<0, 2>>, <<4, 4>>>>}}
NoResult == [runner_state |-> 0, train_result |-> [eval_rewards |-> <<>>]]

\* the arguments a caller passes to the wrapped function
TrainArgs == {<<"runner_state", "buffer_state">>, <<"runner_state">>}

\* the objectives mappings a caller supplies
ObjectiveMaps == UNION {[S -> {7}] : S \in SUBSET Keys}

NoObj == [phase |-> "idle", objective |-> "Runtime",
          optimize_objectives |-> "lower", objectives |-> <<>>,
          given |-> <<>>, args |-> <<>>, calls |-> <<>>, clock |-> 0,
          meter |-> 0, start_time |-> 0, tracker_start |-> 0,
          emissions |-> 0,
          tracked |-> <<>>, result |-> NoResult, returned |-> NoResult]

\* EmissionsTracker.stop(): what was emitted since start()
tracker_stop(started, meter) == meter - started

\* wrapper(*args): up to the call of train_func
WrapperEnter ==
    /\ obj.phase = "called"
    /\ LET o == obj.objective
           started   == obj.meter
           emissions == Signed(o, obj.optimize_objectives,
                               tracker_stop(started, obj.meter))
       IN  obj' = [obj EXCEPT
                     !.phase = "training",
                     !.start_time = IF o = "Runtime" THEN obj.clock ELSE @,
                     !.tracker_start = IF o = "Emissions" THEN started ELSE @,
                     !.tracked = IF o = "Emissions"
                                 THEN <<"start", "stop">> ELSE @,
                     !.emissions = IF o = "Emissions" THEN emissions ELSE @,
                     !.objectives = IF o = "Emissions"
                                    THEN SetItem(@, KEY(o), emissions)
                                    ELSE @,
                     !.calls = Append(@, obj.args)]
    /\ UNCHANGED <<pc, ctorVars, trainVars, ev, init_args>>

\* train_func(*args) runs: time passes, energy is used, a result comes back
TrainFunc ==
    /\ obj.phase = "training"
    /\ \E dt \in 1..MaxTrainTime, res \in TrainResults :
         obj' = [obj EXCEPT !.phase = "trained",
                            !.clock = @ + dt,
                            !.meter = @ + dt,
                            !.tracked = IF @ = <<>> THEN @
                                        ELSE Append(@, "train_func"),
                            !.result = res]
    /\ UNCHANGED <<pc, ctorVars, trainVars, ev, init_args>>

\* wrapper(*args): from the return of train_func on
WrapperExit ==
    /\ obj.phase = "trained"
    /\ LET o == obj.objective
           last == obj.result.train_result.eval_rewards[
                      Len(obj.result.train_result.eval_rewards)]
           value ==
             CASE o = "Runtime"    -> obj.clock - obj.start_time
               [] o = "RewardMean" -> Mean(last)
               [] o = "RewardStd"  -> Mean(last)
               [] o = "Emissions"  -> obj.emissions
           recorded == IF o = "Emissions" THEN value
                       ELSE Signed(o, obj.optimize_objectives, value)
       IN  obj' = [obj EXCEPT
                     !.phase = "returned",
                     !.objectives = SetItem(@, KEY(o), recorded),
                     !.returned = obj.result]
    /\ UNCHANGED <<pc, ctorVars, trainVars, ev, init_args>>


\* ------------------------------------------------------------ specification
\* before construction; rng holds the key the caller will hand to init
Fresh ==
    /\ pc = "new"
    /\ network = None
    /\ buffer = None
    /\ rng2 = RootKey
    /\ train_state = NoTrainState
    /\ env_state = <<>>
    /\ last_obs = <<>>
    /\ obsv = <<>>
    /\ global_step = 0
    /\ buffer_state = None
    /\ k = 0
    /\ it = 0
    /\ n_updates = 0
    /\ initial_step = 0
    /\ draw = 0
    /\ rand_act = 0
    /\ step_out = NoStepOut
    /\ loss = 0
    /\ batch_idx = <<>>
    /\ prev_ts = NoTrainState
    /\ key_uses = <<>>
    /\ ev = NoEval
    /\ init_args = NoInitArgs

Init ==
    /\ \/ action_space = DiscreteSpace /\ cfg \in Configs
       \/ action_space \in {BoxSpace, OtherSpace} /\ cfg = BaseCfg
    /\ rng = RootKey
    /\ obj = NoObj
    /\ Fresh

Next ==
    \/ Construct
    \/ InitAlg
    \/ TrainCall
    \/ UpdateStepBegin
    \/ TakeStep
    \/ DoUpdateGate
    \/ DoTargetGate

Spec == Init /\ [][Next]_vars

\* evaluation of a freshly initialized agent
EvalConfigs == {[BaseCfg EXCEPT !.n_envs = n] : n \in 1..MaxEnvs}

\* the keys a caller hands to init before an evaluation
Seeds == {RootKey, <<0>>, <<1>>, <<0, 0>>, <<0, 1>>, <<1, 0>>, <<1, 1>>}

InitEval ==
    /\ action_space = DiscreteSpace
    /\ cfg \in EvalConfigs
    /\ rng \in Seeds
    /\ obj = NoObj
    /\ Fresh

NextEval ==
    \/ Construct
    \/ InitAlg
    \/ EvalCall
    \/ EnvEpisodeBegin
    \/ BodyFn
    \/ EnvEpisodeEnd
    \/ EvalReturn

SpecEval == InitEval /\ [][NextEval]_vars

\* an evaluation that was invoked keeps running
SpecEvalFair == SpecEval /\ WF_vars(NextEval)

\* a call of a wrapped train function
InitObj ==
    /\ action_space = DiscreteSpace
    /\ cfg = BaseCfg
    /\ rng = RootKey
    /\ Fresh
    /\ \E o \in Objectives, opt \in {"lower", "upper"}, m \in ObjectiveMaps,
          a \in TrainArgs :
         obj = [NoObj EXCEPT !.phase = "called", !.objective = o,
                             !.optimize_objectives = opt, !.objectives = m,
                             !.given = m, !.args = a]

NextObj ==
    \/ WrapperEnter
    \/ TrainFunc
    \/ WrapperExit

SpecObj == InitObj /\ [][NextObj]_vars

\* ============================================================== properties
InTrain == pc \in {"step", "rollout", "target_gate", "trained"}
\* a take_step of the current rollout has run
Stepped == pc = "rollout" /\ k > 0
\* an outer iteration has just ended
IterationEnded == pc \in {"step", "trained"} /\ it > 0

\* C1: after it outer iterations and k rollout steps global_step equals
\* initial_step + (it * train_frequency + k) * n_envs; at the end of train it
\* equals initial_step + N * train_frequency * n_envs.
C1_GlobalStep ==
    InTrain =>
        /\ global_step =
             initial_step
             + (it * cfg.train_frequency
                + (IF pc = "rollout" THEN k
                   ELSE IF pc = "target_gate" THEN cfg.train_frequency ELSE 0))
               * cfg.n_envs
        /\ pc = "trained" =>
             global_step = initial_step
                           + n_updates * cfg.train_frequency * cfg.n_envs

C1_Witness ==
    /\ pc = "trained"
    /\ n_updates >= 2
    /\ cfg.n_envs = 2
    /\ cfg.train_frequency = 2
    /\ initial_step = 1
    /\ global_step = 1 + n_updates * 4

\* C2: the update gate is taken on the global_step the rollout produced: a
\* batch is sampled and one gradient update applied iff that global_step is
\* above learning_starts and a multiple of train_frequency; otherwise the
\* TrainState is the one the iteration started from, the loss is zero and no
\* batch is sampled; a batch is never sampled at global_step <= learning_starts.
C2_UpdateGate ==
    /\ pc = "target_gate" =>
         LET resulting == initial_step
                          + (it + 1) * cfg.train_frequency * cfg.n_envs
         IN  /\ global_step = resulting
             /\ IF resulting > cfg.learning_starts
                   /\ resulting % cfg.train_frequency = 0
                THEN /\ Len(batch_idx) = cfg.buffer_batch_size
                     /\ train_state.step = prev_ts.step + 1
                     /\ train_state.opt_state = prev_ts.opt_state + 1
                     /\ train_state.target_params = prev_ts.target_params
                ELSE /\ train_state = prev_ts
                     /\ loss = 0
                     /\ batch_idx = <<>>
    /\ batch_idx # <<>> => global_step > cfg.learning_starts

C2_Witness ==
    /\ pc = "target_gate"
    /\ batch_idx # <<>>
    /\ train_state.params # prev_ts.params
    /\ loss > 0
    /\ global_step = cfg.learning_starts + 1

\* C3: the target parameters after an outer iteration differ from those before
\* it only if the resulting global_step is above learning_starts and a multiple
\* of target_network_update_freq; the rollout and the gradient update leave
\* them alone.
C3_TargetFrame ==
    /\ pc \in {"rollout", "target_gate"} =>
         train_state.target_params = prev_ts.target_params
    /\ IterationEnded =>
         (train_state.target_params # prev_ts.target_params =>
            /\ global_step > cfg.learning_starts
            /\ global_step % cfg.target_network_update_freq = 0)

C3_Witness ==
    /\ IterationEnded
    /\ train_state.step = prev_ts.step + 1
    /\ train_state.params # prev_ts.params
    /\ train_state.params # train_state.target_params
    /\ global_step % cfg.target_network_update_freq # 0
    /\ train_state.target_params = prev_ts.target_params

\* C4 (as claimed): the indices handed to set_priorities are the slots the
\* same step's add wrote, and each newly inserted transition's priority is
\* (|td_error| + buffer_epsilon) ^ buffer_alpha.
C4_Claim ==
    Stepped =>
        /\ step_out.added_indices = step_out.written
        /\ \A j \in DOMAIN step_out.written :
             buffer_state.priorities[step_out.written[j]]
               = Pow(Abs(step_out.td_error[j]) + cfg.buffer_epsilon,
                     cfg.buffer_alpha)

\* C5 (as claimed): sampling is priority-weighted when buffer_prio_sampling is
\* true (no slot of zero priority is drawn while another has a positive one)
\* and uniform only when it is false.
C5_Claim ==
    /\ pc \notin {"new", "failed"} =>
         (buffer.sample = "prioritised_sample" <=> cfg.buffer_prio_sampling)
    /\ (pc = "target_gate" /\ batch_idx # <<>> /\ cfg.buffer_prio_sampling) =>
         \A b \in DOMAIN batch_idx :
            \/ buffer_state.priorities[batch_idx[b]] > 0
            \/ \A sl \in DOMAIN buffer_state.priorities :
                 buffer_state.priorities[sl] = 0

\* C6: within an evaluation batch a done environment stays done and its
\* accumulated reward never changes again; the reward of the step at which
\* it first reports done is included.
C6_EvalFreeze ==
    [][(ev.phase = "while" /\ ev'.phase = "while" /\ ev'.steps = ev.steps + 1) =>
         \A i \in DOMAIN ev.done :
            /\ ev.done[i] => ev'.done[i] /\ ev'.reward[i] = ev.reward[i]
            /\ ~ev.done[i] => ev'.reward[i] = ev.reward[i] + ev'.reward_[i]
            /\ ev'.done_[i] => ev'.done[i]]_vars

C6_Witness ==
    /\ ev.phase = "while"
    /\ \E i \in DOMAIN ev.done :
         /\ ev.done[i]
         /\ ~ev.done_[i]
         /\ ev.reward_[i] > 0
         /\ ev.at_done[i] > 0
         /\ ev.reward[i] = ev.at_done[i]

\* C7: eval runs ceil(num_episodes / n_envs) batches and returns num_episodes
\* rewards, the batches' reward vectors in batch order, cut to num_episodes.
C7_EvalResult ==
    pc = "evaluated" =>
        /\ Len(ev.rewards) * cfg.n_envs >= ev.num
        /\ (Len(ev.rewards) - 1) * cfg.n_envs < ev.num
        /\ Len(ev.result) = ev.num
        /\ \A j \in 1..ev.num :
             ev.result[j] = ev.rewards[((j - 1) \div cfg.n_envs) + 1]
                                      [((j - 1) % cfg.n_envs) + 1]

C7_Witness ==
    /\ pc = "evaluated"
    /\ cfg.n_envs = 2
    /\ ev.num = 3
    /\ Len(ev.rewards) = 2
    /\ Len(ev.result) = 3

\* C8 (as claimed): construction on a Box action space fails; no network and
\* no buffer are produced.
C8_Claim ==
    action_space.kind = "Box" => pc \in {"new", "failed"}

\* C9: on an action space that is neither Discrete nor Box construction fails
\* before the network and the buffer exist, and nothing ever runs.
C9_OtherSpaceFails ==
    action_space.kind \notin {"Discrete", "Box"} =>
        /\ pc \in {"new", "failed"}
        /\ network = None
        /\ buffer = None
        /\ train_state = NoTrainState
        /\ buffer_state = None
        /\ global_step = 0
        /\ ev = NoEval

C9_Witness ==
    /\ pc = "failed"
    /\ action_space = OtherSpace

\* C10: with epsilon = 0 every rollout step is greedy (its action maximises
\* the online action-values) whatever the draw, with epsilon = 1 every step
\* takes the random action whatever the draw.
C10_EpsilonExtremes ==
    Stepped =>
        /\ cfg.epsilon = 0 =>
             /\ ~step_out.explored
             /\ \A i \in DOMAIN step_out.action : \A a \in Actions :
                  QVal(train_state.params, last_obs[i], step_out.action[i])
                    >= QVal(train_state.params, last_obs[i], a)
        /\ cfg.epsilon = DrawScale =>
             /\ step_out.explored
             /\ \A i \in DOMAIN step_out.action : step_out.action[i] = rand_act

C10_Witness ==
    /\ Stepped
    /\ cfg.epsilon = 0
    /\ draw = 0
    /\ ~step_out.explored

\* C11 (as claimed): the TD error of every environment i of a rollout step is
\* reward_i + (1 - done_i) * gamma * max_a Q_target(next_obs_i, a)
\* - Q_online(prev_obs_i, action_i), with Q_target the target network when
\* use_target_network is true and the online network otherwise.
C11_Claim ==
    Stepped =>
        \A i \in DOMAIN step_out.action :
            LET tparam == IF cfg.use_target_network
                          THEN train_state.target_params
                          ELSE train_state.params
                boot   == RowMax([a \in Actions |->
                                    QVal(tparam, step_out.obs[i], a)])
            IN  step_out.td_error[i]
                  = step_out.reward[i]
                    + (1 - BoolInt(step_out.done[i])) * cfg.gamma * boot
                    - QVal(train_state.params, step_out.prev_obs[i],
                           step_out.action[i])

\* C12 (as claimed): within an outer iteration no key is consumed by more than
\* one random operation, and the key the iteration hands on in the runner
\* state has been consumed by none of them.
C12_Claim ==
    /\ \A a, b \in DOMAIN key_uses :
         a # b => key_uses[a].key # key_uses[b].key
    /\ pc \in {"target_gate", "step", "trained"} =>
         \A a \in DOMAIN key_uses : key_uses[a].key # rng

\* C13 (as claimed): in a run started from init with a configuration that
\* satisfies the Config invariant, whenever the update gate fires and a batch
\* is sampled the buffer's valid length is at least buffer_batch_size.
C13_Claim ==
    (/\ ConfigInvariant(cfg)
     /\ initial_step = 0
     /\ pc = "target_gate"
     /\ batch_idx # <<>>)
    => buffer_state.valid_len >= cfg.buffer_batch_size

\* C14: after any number of rollout steps from an initialized buffer each add
\* has written n_envs timesteps from current_index on with circular wrap,
\* current_index is the number of timesteps written modulo the capacity and
\* lies in [0, capacity), there is a priority per slot, and the valid length
\* is min(timesteps written, capacity); one iteration with n_envs = 1,
\* train_frequency = 4 and learning_starts = 4 gives global_step = 4, valid
\* length 4 and a false update gate.
C14_BufferShape ==
    InTrain =>
        LET cap     == cfg.buffer_size
            n       == cfg.n_envs
            written == (it * cfg.train_frequency
                        + (IF pc = "rollout" THEN k
                           ELSE IF pc = "target_gate" THEN cfg.train_frequency
                           ELSE 0)) * n
        IN  /\ buffer_state.current_index = written % cap
            /\ buffer_state.current_index \in 0..(cap - 1)
            /\ DOMAIN buffer_state.priorities = Slots(cap)
            /\ DOMAIN buffer_state.storage = Slots(cap)
            /\ buffer_state.valid_len = Min(written, cap)
            /\ Stepped =>
                 /\ Len(step_out.written) = n
                 /\ \A j \in 1..n :
                      /\ step_out.written[j] = (written - n + j - 1) % cap
                      /\ buffer_state.storage[step_out.written[j]]
                           = step_out.timestep[j]
            /\ (cfg = ScenarioCfg /\ initial_step = 0 /\ pc = "target_gate") =>
                 /\ global_step = 4
                 /\ buffer_state.valid_len = 4
                 /\ batch_idx = <<>>
                 /\ train_state = prev_ts

C14_Witness ==
    /\ Stepped
    /\ cfg = WrapCfg
    /\ step_out.written = <<2, 0>>
    /\ buffer_state.current_index = 1
    /\ buffer_state.valid_len = 3

\* C15: with tau = 1, at the end of an outer iteration in which the sync gate
\* fires the target parameters are the online parameters of the TrainState
\* the iteration returns; when the update gate fired too, those are the
\* parameters after the gradient update, which the sync does not undo.
C15_HardCopy ==
    (/\ IterationEnded
     /\ cfg.tau = TauDen
     /\ global_step > cfg.learning_starts
     /\ global_step % cfg.target_network_update_freq = 0)
    => /\ train_state.target_params = train_state.params
       /\ IF batch_idx # <<>>
          THEN LET batch == [b \in DOMAIN batch_idx |->
                               buffer_state.storage[batch_idx[b]]]
                   upd   == Update(prev_ts, batch, cfg).train_state
               IN  /\ train_state.params = upd.params
                   /\ train_state.step = prev_ts.step + 1
                   /\ train_state.opt_state = upd.opt_state
          ELSE /\ train_state.params = prev_ts.params
               /\ train_state.step = prev_ts.step

C15_Witness ==
    /\ IterationEnded
    /\ cfg.tau = TauDen
    /\ batch_idx # <<>>
    /\ global_step % cfg.target_network_update_freq = 0
    /\ train_state.params # prev_ts.params
    /\ train_state.target_params = train_state.params
    /\ prev_ts.target_params # prev_ts.params
    /\ prev_ts.target_params # train_state.params

\* C19 (as claimed): every rollout step takes as its previous observation the
\* one the environment emitted in the step before (the runner state's for the
\* first step): the stored timestep's last_obs is that observation, a greedy
\* action maximises Q on it, and the TD error's predicted value is read at it.
C19_Claim ==
    Stepped =>
        /\ \A i \in DOMAIN step_out.action :
             /\ step_out.timestep[i].last_obs = step_out.prev_obs[i]
             /\ ~step_out.explored =>
                  step_out.action[i]
                    = RowArgmax(NetApply(train_state.params,
                                         step_out.prev_obs)[i])
        /\ step_out.td_error
             = TdError(train_state, step_out.prev_obs, step_out.action,
                       [obs |-> step_out.obs, reward |-> step_out.reward,
                        done |-> step_out.done], cfg)

\* C20: in a run started from init, global_step at the gates is a positive
\* multiple of train_frequency * n_envs, so the update gate is open exactly
\* when global_step > learning_starts, and the target parameters change only
\* at a global_step that is a multiple of train_frequency * n_envs and of
\* target_network_update_freq.
C20_GateMultiples ==
    initial_step = 0 =>
        /\ pc = "target_gate" =>
             /\ global_step > 0
             /\ global_step % (cfg.train_frequency * cfg.n_envs) = 0
             /\ global_step % cfg.train_frequency = 0
             /\ (batch_idx # <<>>) <=> (global_step > cfg.learning_starts)
        /\ (IterationEnded
            /\ train_state.target_params # prev_ts.target_params) =>
             /\ global_step % (cfg.train_frequency * cfg.n_envs) = 0
             /\ global_step % cfg.target_network_update_freq = 0

C20_Witness ==
    /\ initial_step = 0
    /\ IterationEnded
    /\ cfg.n_envs = 2
    /\ cfg.train_frequency = 2
    /\ cfg.target_network_update_freq = 2
    /\ cfg.learning_starts = 3
    /\ global_step = 4
    /\ batch_idx # <<>>
    /\ train_state.target_params # prev_ts.target_params

\* C17 (as claimed): any two batches of one eval call use different keys for
\* the environment reset and for stepping.
C17_Claim ==
    \A a, b \in DOMAIN ev.batch_keys :
        a # b => /\ ev.batch_keys[a].reset # ev.batch_keys[b].reset
                 /\ ev.batch_keys[a].loop # ev.batch_keys[b].loop

\* C18: an evaluation batch takes a step only while some environment has not
\* reported done and leaves the loop only when every environment has; a
\* batch with an environment that never reports done is never left, and a
\* batch whose environments all report done is left eventually.
C18_EvalLoop ==
    /\ [][ev.phase = "while" =>
             /\ ev'.steps = ev.steps + 1 =>
                  \E i \in DOMAIN ev.done : ~ev.done[i]
             /\ ev'.phase # "while" =>
                  /\ \A i \in DOMAIN ev.done : ev.done[i]
                  /\ ev.steps >= 1]_vars
    /\ [](ev.endless # {} => ev.batch = 0 /\ pc # "evaluated")
    /\ ((ev.phase = "while" /\ ev.endless = {}) ~> (ev.phase = "scan"))

C18_Witness ==
    /\ ev.phase = "while"
    /\ ev.endless = {}
    /\ ev.steps >= 2
    /\ \A i \in DOMAIN ev.done : ev.done[i]
    /\ \E i \in DOMAIN ev.done : ~ev.done_[i]

\* C16: a call of a wrapped function invokes the train function exactly once
\* with the caller's arguments and returns the value the train function
\* returned; of the objectives mapping it writes the objective's own key and
\* leaves every other key as the caller supplied it.
C16_WrapperFrame ==
    LET own == CASE obj.objective = "Runtime"    -> "runtime"
                 [] obj.objective = "RewardMean" -> "reward_mean"
                 [] obj.objective = "RewardStd"  -> "reward_std"
                 [] obj.objective = "Emissions"  -> "emissions"
    IN  /\ obj.phase \in {"training", "trained", "returned"} =>
             obj.calls = <<obj.args>>
        /\ obj.phase = "returned" =>
             /\ obj.returned = obj.result
             /\ DOMAIN obj.objectives = DOMAIN obj.given \cup {own}
        /\ obj.phase # "idle" =>
             /\ DOMAIN obj.objectives \subseteq DOMAIN obj.given \cup {own}
             /\ \A x \in DOMAIN obj.given :
                  x # own => /\ x \in DOMAIN obj.objectives
                             /\ obj.objectives[x] = obj.given[x]

C16_Witness ==
    /\ obj.phase = "returned"
    /\ obj.objective = "RewardStd"
    /\ DOMAIN obj.given = {"reward_mean", "emissions"}
    /\ obj.objectives["reward_std"] = 0 - 4
    /\ obj.returned \in TrainResults
    /\ obj.calls = <<obj.args>>

\* C21: one call of train runs (n_total_timesteps // train_frequency) //
\* n_envs outer iterations; the environment steps it accounts for, the final
\* global_step minus the initial one, never exceed n_total_timesteps and fall
\* short of it by less than train_frequency * n_envs.
C21_TrainLength ==
    /\ InTrain => it <= n_updates
    /\ pc = "trained" =>
         LET steps == global_step - initial_step
         IN  /\ it = n_updates
             /\ it = (cfg.n_total_timesteps \div cfg.train_frequency)
                        \div cfg.n_envs
             /\ steps = it * cfg.train_frequency * cfg.n_envs
             /\ steps <= cfg.n_total_timesteps
             /\ cfg.n_total_timesteps - steps
                  < cfg.train_frequency * cfg.n_envs

C21_Witness ==
    /\ pc = "trained"
    /\ cfg.n_envs = 2
    /\ cfg.train_frequency = 2
    /\ it >= 2
    /\ cfg.n_total_timesteps - (global_step - initial_step) = 1

\* C22: init called without network_params and without target_params returns
\* a TrainState whose target parameters equal its online parameters, with
\* global_step 0 and update counter 0; parameters the caller supplies are
\* adopted unchanged.
C22_InitParams ==
    pc = "initialized" =>
        /\ (/\ init_args.network_params = NoParams
            /\ init_args.target_params = NoParams) =>
             /\ train_state.target_params = train_state.params
             /\ train_state.params \in Params
        /\ init_args.network_params # NoParams =>
             train_state.params = init_args.network_params
        /\ init_args.target_params # NoParams =>
             train_state.target_params = init_args.target_params
        /\ global_step = 0
        /\ train_state.step = 0

C22_Witness ==
    /\ pc = "initialized"
    /\ init_args = NoInitArgs
    /\ train_state.params \in Params
    /\ train_state.target_params = train_state.params
    /\ train_state.step = 0

\* C23 (as claimed): the Emissions wrapper starts the tracker before it
\* invokes the train function and stops it only after the train function
\* returned; what it records under the emissions key is what was emitted
\* over that interval.
C23_Claim ==
    (obj.objective = "Emissions" /\ obj.phase = "returned") =>
        /\ obj.tracked = <<"start", "train_func", "stop">>
        /\ Abs(obj.objectives["emissions"]) = obj.meter - obj.tracker_start

====
